---- MODULE Spec2Model ----
(***************************************************************************)
(* CLI-nvaders: the frame scheduler (start), the per-tick game loop        *)
(* (game_loop, GameState::evaluate_state), the renderer (render,           *)
(* replace_at) and the text layout helpers (right_pad, left_pad) of        *)
(* src/src/game.rs.                                                        *)
(*                                                                         *)
(* Conventions.                                                            *)
(*  - Option<T> is a sequence of length at most one: <<>> is None and      *)
(*    <<v>> is Some(v).                                                     *)
(*  - A String is a sequence of characters; a character is a one-element   *)
(*    TLA+ string, or a name such as "U+2605" for a multi-byte character.  *)
(*  - Result<(), String> is "Ok" or the error message.                     *)
(*  - Time is counted in units of 1/TicksPerSec second.  The f32           *)
(*    accumulator is modelled by the exact sum of the measured deltas; the *)
(*    comparison with 1/rate is done on cross-multiplied integers.         *)
(***************************************************************************)
EXTENDS Integers, Sequences, FiniteSets, TLC

VARIABLES
    args,                   \* Arguments {frame_rate, panic_on_errors}
    state,                  \* the GameState owned by start()
    pc,                     \* position of start() in its code
    target_frame_time,      \* start(): target_frame_time, a fraction num/den
    frame_time,             \* start(): the accumulator frame_time, in units
    elapsed,                \* t.elapsed() as last measured, in units
    meassure,               \* start(): meassure of the tick that fired last
    frame_execution_result, \* start(): result of game_loop of this tick
    query,                  \* answer of termsize::get() in the last evaluate_state
    eval_result,            \* what the last evaluate_state returned
    frame,                  \* what render did in this tick: lines and outcome
    message,                \* what start() printed or panicked with in this tick
    fired_at,               \* history: frame_time when this tick fired
    calls,                  \* history: the calls made by the current tick
    tick_start,             \* history: GameState when the current tick fired
    pad_call,               \* a call of right_pad or left_pad: its arguments
    pad_result              \* what that call returned

vars == <<args, state, pc, target_frame_time, frame_time,
          elapsed, meassure, frame_execution_result, query, eval_result,
          frame, message, fired_at, calls, tick_start, pad_call, pad_result>>

----------------------------------------------------------------------------
(* Bounds of the model *)

\* largest time between two measurements of t.elapsed(), in units, unless the
\* process stalls
MaxStep == 5
\* largest number of stalls of one whole second between two ticks
MaxStalls == 1
\* largest column the random generator is let to draw at startup
MaxSpawnCol == 2
\* largest number of FallingStars of a GameState handed to render directly
MaxStars == 2
\* longest string handed to right_pad and left_pad directly, in characters
MaxPadLen == 3

(* Program constants *)

\* units per second: 1 unit = 10 000 of the microseconds of subsec_micros
TicksPerSec == 100
U16Max == 65535
U8Max == 255
MinAxis == 8
StarCount == 4
SeparatorRows == 10

None == <<>>
Some(v) == <<v>>
IsNone(o) == o = <<>>
Unwrap(o) == o[1]

Min(a, b) == IF a < b THEN a ELSE b

Size(r, c) == [rows |-> r, cols |-> c]

\* the answers termsize::get() is followed through
TermSizes ==
    { Size(7, 100), Size(100, 7), Size(8, 8), Size(12, 40), Size(16, 8) }

QueryAnswers == {None} \cup { Some(s) : s \in TermSizes }

\* every frame rate of Arguments, and the ones the scheduler is followed with
AllFrameRates == {None} \cup { Some(r) : r \in 0..U8Max }
FrameRates == { None, Some(0), Some(8), Some(50), Some(U8Max) }

Glyphs == { "*", "+" }
\* the glyph of a star spawned at startup: the FallingStar literal of start()
\* names no entity, the glyph is taken to be the one of the renderer's examples
SpawnGlyph == "*"

TerminalTooSmall == "Invalid terminal size ('termsize::get()')"
TerminalQueryFailed == "Failed to compute terminal size ('termsize::get()')"
ScreenClearFailed == "Cought an error calling 'clearscreen::clear()'"
StartupPanic ==
    "Failed to start! 'GameState::evaluate_state()' paniced! Are you running TempleOS?"

----------------------------------------------------------------------------
(* GameState *)

\* GameState::new()
NewGameState ==
    [ size          |-> Size(0, 0),
      enemies       |-> <<>>,
      projectiles   |-> <<>>,
      falling_stars |-> <<>>,
      player        |-> [pos |-> 0] ]

\* evaluate_state as it would be with `&&` for `||` in the size test
EvaluateStateBothAxes(s, q) ==
    IF ~IsNone(q)
    THEN LET s1 == [s EXCEPT !.size = Unwrap(q)]
         IN  IF s1.size.cols < MinAxis /\ s1.size.rows < MinAxis
             THEN [state |-> s1, result |-> TerminalTooSmall]
             ELSE [state |-> s1, result |-> "Ok"]
    ELSE [state |-> s, result |-> TerminalQueryFailed]

\* evaluate_state as it would be if it clamped the player into the new rows
EvaluateStateClamping(s, q) ==
    IF ~IsNone(q)
    THEN LET s1 == [s EXCEPT !.size = Unwrap(q),
                             !.player.pos = Min(@, Unwrap(q).rows - 1)]
         IN  IF s1.size.cols < MinAxis \/ s1.size.rows < MinAxis
             THEN [state |-> s1, result |-> TerminalTooSmall]
             ELSE [state |-> s1, result |-> "Ok"]
    ELSE [state |-> s, result |-> TerminalQueryFailed]

\* GameState::evaluate_state(&mut self) with termsize::get() answering q:
\* the state after the call and the value returned
EvaluateState(s, q) ==
    IF ~IsNone(q)
    THEN LET s1 == [s EXCEPT !.size = Unwrap(q)]
         IN  IF s1.size.cols < MinAxis \/ s1.size.rows < MinAxis
             THEN [state |-> s1, result |-> TerminalTooSmall]
             ELSE [state |-> s1, result |-> "Ok"]
    ELSE [state |-> s, result |-> TerminalQueryFailed]

----------------------------------------------------------------------------
(* Frame scheduler arithmetic *)

\* target_frame_time as it would be with a target of zero when uncapped
TargetFrameTimeZeroUncapped(frame_rate) ==
    IF ~IsNone(frame_rate) /\ Unwrap(frame_rate) > 0
    THEN [num |-> 1, den |-> Unwrap(frame_rate)]
    ELSE [num |-> 0, den |-> 1]

\* target_frame_time as it would be without the `if rate > 0` guard
TargetFrameTimeAnyRate(frame_rate) ==
    IF ~IsNone(frame_rate)
    THEN [num |-> 1, den |-> Unwrap(frame_rate)]
    ELSE [num |-> 1, den |-> U8Max]

\* start(): target_frame_time as the fraction num/den of a second
TargetFrameTime(frame_rate) ==
    IF ~IsNone(frame_rate) /\ Unwrap(frame_rate) > 0
    THEN [num |-> 1, den |-> Unwrap(frame_rate)]
    ELSE [num |-> 1, den |-> U8Max]

\* the comparison as it would be with `>` for `>=`
TickDueStrict(ft, target) == ft * target.den > target.num * TicksPerSec

\* frame_time >= target_frame_time, frame_time in units
TickDue(ft, target) == ft * target.den >= target.num * TicksPerSec

\* (1_f32 / frame_time).round() as u16: round half away from zero, the cast
\* saturates, and 1/0 is +inf
Meassure(ft) ==
    IF ft = 0 THEN U16Max
    ELSE Min(U16Max, (2 * TicksPerSec + ft) \div (2 * ft))

\* t.elapsed().subsec_micros(): the fractional part of the elapsed time
SubsecMicros(e) == e % TicksPerSec

----------------------------------------------------------------------------
(* Text layout helpers *)

\* "c".repeat(n)
Repeat(c, n) == [i \in 1..n |-> c]

\* char::len_utf8
Utf8Len(c) ==
    CASE c = "U+00E9" -> 2
      [] c = "U+2605" -> 3
      [] OTHER -> 1

\* the byte offset at which the character after the first k ones starts
RECURSIVE ByteOffset(_, _)
ByteOffset(s, k) ==
    IF k = 0 THEN 0 ELSE ByteOffset(s, k - 1) + Utf8Len(s[k])

\* the number of leading characters that end at byte offset n, as a set:
\* empty when n is not a character boundary of s (str::split_at panics)
CharsAtByte(s, n) == { k \in 0..Len(s) : ByteOffset(s, k) = n }

\* right_pad(string_content, length)
RightPad(string_content, length) ==
    LET char_count == Len(string_content)
    IN  IF char_count = length
        THEN [panicked |-> FALSE, value |-> string_content]
        ELSE IF char_count > length
        THEN LET at == CharsAtByte(string_content, length)
             IN  IF at = {}
                 THEN [panicked |-> TRUE, value |-> <<>>]
                 ELSE [panicked |-> FALSE,
                       value |-> SubSeq(string_content, 1, CHOOSE k \in at : TRUE)]
        ELSE [panicked |-> FALSE,
              value |-> string_content \o Repeat(" ", length - char_count)]

\* left_pad as it would be with `>` for `>=`
LeftPadStrict(start_index, string_content, length) ==
    IF start_index > length
    THEN Repeat(" ", length)
    ELSE LET line == IF start_index = 0 THEN <<>> ELSE Repeat(" ", start_index)
         IN  line \o string_content

\* left_pad(start_index, string_content, length)
LeftPad(start_index, string_content, length) ==
    IF start_index >= length
    THEN Repeat(" ", length)
    ELSE LET line == IF start_index = 0 THEN <<>> ELSE Repeat(" ", start_index)
         IN  line \o string_content

\* replace_at(content, character, index): index counts characters from 0
ReplaceAt(content, character, index) ==
    IF index >= Len(content)
    THEN [panicked |-> TRUE, value |-> content]
    ELSE [panicked |-> FALSE, value |-> [content EXCEPT ![index + 1] = character]]

\* the decimal digits of n, as format!("{n}") writes them
RECURSIVE Digits(_)
Digits(n) ==
    LET d == <<"0", "1", "2", "3", "4", "5", "6", "7", "8", "9">>[(n % 10) + 1]
    IN  IF n < 10 THEN <<d>> ELSE Append(Digits(n \div 10), d)

\* format!("Framerate: {frame_rate}")
StatusText(frame_rate) ==
    <<"F", "r", "a", "m", "e", "r", "a", "t", "e", ":", " ">> \o Digits(frame_rate)

----------------------------------------------------------------------------
(* Renderer *)

Last(s) == s[Len(s)]

\* x + 1 on a u8 and x - 1 on a u16: None when the operation overflows in a
\* build with overflow checks (a panic), the wrapped value otherwise
U8Inc(x, checks) ==
    IF x = U8Max THEN (IF checks THEN None ELSE Some(0)) ELSE Some(x + 1)

U16Dec(x, checks) ==
    IF x = 0 THEN (IF checks THEN None ELSE Some(U16Max)) ELSE Some(x - 1)

\* render(): the `for star in &state.falling_stars` scan of one row, from the
\* i-th star on.  Gives panicked, start_at_col and star_indicies.
RECURSIVE ScanStars(_, _, _, _, _, _)
ScanStars(stars, i, current_row, start_at_col, star_indicies, checks) ==
    IF i > Len(stars)
    THEN [panicked |-> FALSE, start_at_col |-> start_at_col,
          star_indicies |-> star_indicies]
    ELSE IF star_indicies = <<>>
    THEN \* star_indicies.last_mut().unwrap() on an empty vector
         [panicked |-> TRUE, start_at_col |-> start_at_col,
          star_indicies |-> star_indicies]
    ELSE
    LET star == stars[i]
        inc  == U8Inc(Last(star_indicies), checks)
        dec  == U16Dec(star.col, checks)
        bad  == [panicked |-> TRUE, start_at_col |-> start_at_col,
                 star_indicies |-> star_indicies]
    IN  IF IsNone(inc) THEN bad
        ELSE
        LET idx1 == [star_indicies EXCEPT ![Len(star_indicies)] = Unwrap(inc)]
        IN  IF star.pos # current_row
            THEN ScanStars(stars, i + 1, current_row, start_at_col, idx1, checks)
            ELSE IF IsNone(dec) THEN bad
            ELSE
            LET col0 == IF IsNone(start_at_col) \/ Unwrap(dec) < Unwrap(start_at_col)
                        THEN Some(Unwrap(dec))
                        ELSE start_at_col
            IN  ScanStars(stars, i + 1, current_row, col0,
                          Append(idx1, Last(idx1)), checks)

\* render(): the `for index in star_indicies` loop, from the k-th index on
RECURSIVE OverlayStars(_, _, _, _)
OverlayStars(line, stars, star_indicies, k) ==
    IF k > Len(star_indicies)
    THEN [panicked |-> FALSE, value |-> line]
    ELSE LET index == star_indicies[k]
         IN  IF index >= Len(stars)
             THEN [panicked |-> TRUE, value |-> line]
             ELSE LET r == ReplaceAt(line, stars[index + 1].entity, stars[index + 1].col)
                  IN  IF r.panicked THEN r
                      ELSE OverlayStars(r.value, stars, star_indicies, k + 1)

\* render(): the `while current_row < state.size.rows` loop, `lines` being
\* what was printed so far.  An iteration that overlays stars neither prints
\* the line nor advances current_row, so the loop repeats it for ever.
RECURSIVE RenderRows(_, _, _, _)
RenderRows(s, current_row, lines, checks) ==
    IF ~(current_row < s.size.rows)
    THEN [lines |-> lines, outcome |-> "returned"]
    ELSE
    LET scan == ScanStars(s.falling_stars, 1, current_row, None, <<>>, checks)
        line == Repeat("=", s.size.rows)
    IN  IF scan.panicked
        THEN [lines |-> lines, outcome |-> "panicked"]
        ELSE IF IsNone(scan.start_at_col)
        THEN RenderRows(s, current_row + 1, Append(lines, line), checks)
        ELSE IF OverlayStars(line, s.falling_stars, scan.star_indicies, 1).panicked
        THEN [lines |-> lines, outcome |-> "panicked"]
        ELSE [lines |-> lines, outcome |-> "diverged"]

\* render(): the first playfield row
StartAtRow(s) == IF s.size.rows > SeparatorRows THEN 2 ELSE 1

\* render(frame_rate, state): the lines printed and how the call ended
Render(frame_rate, s, checks) ==
    LET status == RightPad(StatusText(frame_rate), s.size.rows)
        head   == << <<>>, status.value >>
        head2  == IF s.size.rows > SeparatorRows
                  THEN Append(head, Repeat("=", s.size.rows))
                  ELSE head
    IN  IF status.panicked
        THEN [lines |-> << <<>> >>, outcome |-> "panicked"]
        ELSE RenderRows(s, StartAtRow(s), head2, checks)

----------------------------------------------------------------------------
(* start(): startup *)

NoFrame == [lines |-> <<>>, outcome |-> "none"]

\* the variables start() has not set yet
Blank ==
    /\ target_frame_time = [num |-> 0, den |-> 1]
    /\ frame_time = 0
    /\ elapsed = 0
    /\ meassure = 0
    /\ frame_execution_result = "none"
    /\ query = None
    /\ eval_result = "none"
    /\ frame = NoFrame
    /\ message = <<>>
    /\ fired_at = -1
    /\ calls = <<>>
    /\ pad_call = None
    /\ pad_result = None

Init ==
    /\ args \in [frame_rate : FrameRates, panic_on_errors : BOOLEAN]
    /\ state = NewGameState
    /\ tick_start = NewGameState
    /\ pc = "args"
    /\ Blank

\* let target_frame_time = match args.frame_rate {..}; GameState::new()
ComputeTarget ==
    /\ pc = "args"
    /\ target_frame_time' = TargetFrameTime(args.frame_rate)
    /\ pc' = "start"
    /\ UNCHANGED <<pad_call, pad_result, args, state, frame_time, elapsed, meassure,
                   frame_execution_result, query, eval_result, frame, message,
                   fired_at, calls, tick_start>>

\* the startup evaluate_state as it would be if its error were dispatched on
\* panic_on_errors like a tick error
StartEvaluateLenient ==
    /\ pc = "start"
    /\ \E q \in QueryAnswers :
         LET r == EvaluateState(state, q)
         IN  /\ state' = r.state
             /\ query' = q
             /\ eval_result' = r.result
             /\ IF r.result = "Ok" \/ ~args.panic_on_errors
                THEN pc' = "populate" /\ message' = message
                ELSE pc' = "aborted" /\ message' = <<StartupPanic, r.result>>
    /\ tick_start' = state'
    /\ UNCHANGED <<pad_call, pad_result, args, target_frame_time, frame_time, elapsed, meassure,
                   frame_execution_result, frame, fired_at, calls>>

\* state.evaluate_state().expect(..) on the new GameState
StartEvaluate ==
    /\ pc = "start"
    /\ \E q \in QueryAnswers :
         LET r == EvaluateState(state, q)
         IN  /\ state' = r.state
             /\ query' = q
             /\ eval_result' = r.result
             /\ IF r.result = "Ok"
                THEN pc' = "populate" /\ message' = message
                ELSE pc' = "aborted" /\ message' = <<StartupPanic, r.result>>
    /\ tick_start' = state'
    /\ UNCHANGED <<pad_call, pad_result, args, target_frame_time, frame_time, elapsed, meassure,
                   frame_execution_result, frame, fired_at, calls>>

\* the columns rng.gen_range(1..state.size.cols) is let to draw
SpawnCols(s) == 1..Min(s.size.cols - 1, MaxSpawnCol)

\* one iteration of `while state.falling_stars.len() < 4`: the scan of the
\* existing stars only continues its own loop, and the star is pushed
SpawnStar ==
    /\ pc = "populate"
    /\ Len(state.falling_stars) < StarCount
    /\ \E col \in SpawnCols(state) :
         state' = [state EXCEPT !.falling_stars =
                      Append(@, [pos |-> 0, col |-> col, entity |-> SpawnGlyph])]
    /\ tick_start' = state'
    /\ UNCHANGED <<pad_call, pad_result, args, pc, target_frame_time, frame_time, elapsed, meassure,
                   frame_execution_result, query, eval_result, frame, message,
                   fired_at, calls>>

\* state.player.pos = state.size.rows >> 1; t = Instant::now(); frame_time = 0
PlacePlayer ==
    /\ pc = "populate"
    /\ ~(Len(state.falling_stars) < StarCount)
    /\ state' = [state EXCEPT !.player.pos = state.size.rows \div 2]
    /\ tick_start' = state'
    /\ elapsed' = 0
    /\ frame_time' = 0
    /\ query' = None
    /\ eval_result' = "none"
    /\ pc' = "loop"
    /\ UNCHANGED <<pad_call, pad_result, args, target_frame_time, meassure, frame_execution_result,
                   frame, message, fired_at, calls>>

----------------------------------------------------------------------------
(* start(): the scheduler loop *)

\* the wall-clock time that can pass between two measurements of t.elapsed()
\* when t.elapsed() was e at the previous one
Deltas(e) ==
    (0..MaxStep) \cup (IF e \div TicksPerSec < MaxStalls THEN {TicksPerSec} ELSE {})

\* an iteration with frame_time < target_frame_time: d units of wall-clock
\* time have passed since the previous measurement, t is left as it was
Accumulate ==
    /\ pc = "loop"
    /\ ~TickDue(frame_time, target_frame_time)
    /\ \E d \in Deltas(elapsed) :
         /\ elapsed' = elapsed + d
         /\ frame_time' = frame_time + SubsecMicros(elapsed')
    /\ UNCHANGED <<pad_call, pad_result, args, state, pc, target_frame_time, meassure,
                   frame_execution_result, query, eval_result, frame, message,
                   fired_at, calls, tick_start>>

\* an iteration with frame_time >= target_frame_time, up to the call of
\* game_loop
FireTick ==
    /\ pc = "loop"
    /\ TickDue(frame_time, target_frame_time)
    /\ meassure' = Meassure(frame_time)
    /\ fired_at' = frame_time
    /\ elapsed' = 0
    /\ frame_time' = 0
    /\ calls' = <<>>
    /\ tick_start' = state
    /\ pc' = "game_loop"
    /\ UNCHANGED <<pad_call, pad_result, args, state, target_frame_time, frame_execution_result, query,
                   eval_result, frame, message>>

\* game_loop as it would be with evaluate_state called before the screen clear
ClearScreenAfterEvaluate ==
    /\ pc = "game_loop"
    /\ \E q \in QueryAnswers, cleared \in BOOLEAN :
         LET r == EvaluateState(state, q)
         IN  /\ state' = r.state
             /\ query' = q
             /\ eval_result' = r.result
             /\ IF r.result # "Ok"
                THEN /\ frame_execution_result' = r.result
                     /\ calls' = Append(calls, "evaluate_state")
                ELSE /\ frame_execution_result' =
                            (IF cleared THEN "Ok" ELSE ScreenClearFailed)
                     /\ calls' = calls \o <<"evaluate_state", "clear">>
    /\ pc' = "match"
    /\ UNCHANGED <<pad_call, pad_result, args, target_frame_time, frame_time, elapsed, meassure, frame,
                   message, fired_at, tick_start>>

\* game_loop(): clearscreen::clear()
ClearScreen ==
    /\ pc = "game_loop"
    /\ calls' = Append(calls, "clear")
    /\ \E cleared \in BOOLEAN :
         IF cleared
         THEN pc' = "evaluate" /\ UNCHANGED frame_execution_result
         ELSE pc' = "match" /\ frame_execution_result' = ScreenClearFailed
    /\ UNCHANGED <<pad_call, pad_result, args, state, target_frame_time, frame_time, elapsed, meassure,
                   query, eval_result, frame, message, fired_at, tick_start>>

\* game_loop(): state.evaluate_state()? and the return
TickEvaluate ==
    /\ pc = "evaluate"
    /\ calls' = Append(calls, "evaluate_state")
    /\ \E q \in QueryAnswers :
         LET r == EvaluateState(state, q)
         IN  /\ state' = r.state
             /\ query' = q
             /\ eval_result' = r.result
             /\ frame_execution_result' = r.result
    /\ pc' = "match"
    /\ UNCHANGED <<pad_call, pad_result, args, target_frame_time, frame_time, elapsed, meassure, frame,
                   message, fired_at, tick_start>>

\* the Ok(_) arm as it would be if it matched every result
MatchOkAnyResult ==
    /\ pc = "match"
    /\ pc' = "render"
    /\ UNCHANGED <<pad_call, pad_result, args, state, target_frame_time, frame_time, elapsed, meassure,
                   frame_execution_result, query, eval_result, frame, message,
                   fired_at, calls, tick_start>>

\* match frame_execution_result: the Ok(_) arm, up to the call of render
MatchOk ==
    /\ pc = "match"
    /\ frame_execution_result = "Ok"
    /\ pc' = "render"
    /\ UNCHANGED <<pad_call, pad_result, args, state, target_frame_time, frame_time, elapsed, meassure,
                   frame_execution_result, query, eval_result, frame, message,
                   fired_at, calls, tick_start>>

\* the Err(error_message) arm as it would be without the panic_on_errors test
MatchErrAlwaysLog ==
    /\ pc = "match"
    /\ frame_execution_result # "Ok"
    /\ message' = <<"Error! {}", frame_execution_result>>
    /\ pc' = "continue"
    /\ UNCHANGED <<pad_call, pad_result, args, state, target_frame_time, frame_time, elapsed, meassure,
                   frame_execution_result, query, eval_result, frame, fired_at,
                   calls, tick_start>>

\* match frame_execution_result: the Err(error_message) arm
MatchErr ==
    /\ pc = "match"
    /\ frame_execution_result # "Ok"
    /\ IF args.panic_on_errors
       THEN /\ message' = <<"Panic! {}", frame_execution_result>>
            /\ pc' = "aborted"
       ELSE /\ message' = <<"Error! {}", frame_execution_result>>
            /\ pc' = "continue"
    /\ UNCHANGED <<pad_call, pad_result, args, state, target_frame_time, frame_time, elapsed, meassure,
                   frame_execution_result, query, eval_result, frame, fired_at,
                   calls, tick_start>>

\* render(meassure, &state), in a build with or without overflow checks
RenderFrame ==
    /\ pc = "render"
    /\ calls' = Append(calls, "render")
    /\ \E checks \in BOOLEAN :
         /\ frame' = Render(meassure, state, checks)
         /\ pc' = CASE frame'.outcome = "returned" -> "continue"
                    [] frame'.outcome = "panicked" -> "aborted"
                    [] OTHER -> "hung"
    /\ UNCHANGED <<pad_call, pad_result, args, state, target_frame_time, frame_time, elapsed, meassure,
                   frame_execution_result, query, eval_result, message, fired_at,
                   tick_start>>

\* `continue`: the locals of the tick go out of scope, the loop goes on
Continue ==
    /\ pc = "continue"
    /\ meassure' = 0
    /\ frame_execution_result' = "none"
    /\ query' = None
    /\ eval_result' = "none"
    /\ frame' = NoFrame
    /\ message' = <<>>
    /\ fired_at' = -1
    /\ calls' = <<>>
    /\ tick_start' = state
    /\ pc' = "loop"
    /\ UNCHANGED <<pad_call, pad_result, args, state, target_frame_time, frame_time, elapsed>>

Next ==
    \/ ComputeTarget
    \/ StartEvaluate
    \/ SpawnStar
    \/ PlacePlayer
    \/ Accumulate
    \/ FireTick
    \/ ClearScreen
    \/ TickEvaluate
    \/ MatchOk
    \/ MatchErr
    \/ RenderFrame
    \/ Continue

Spec == Init /\ [][Next]_vars

----------------------------------------------------------------------------
(* The frame rate configuration on its own: every value of Arguments *)

InitConfig ==
    /\ args \in [frame_rate : AllFrameRates, panic_on_errors : BOOLEAN]
    /\ state = NewGameState
    /\ tick_start = NewGameState
    /\ pc = "args"
    /\ Blank

NextConfig == ComputeTarget

SpecConfig == InitConfig /\ [][NextConfig]_vars

----------------------------------------------------------------------------
(* render on its own: called on any renderable GameState *)

RenderSizes == { s \in TermSizes : s.rows >= MinAxis /\ s.cols >= MinAxis }
\* rows of a star: above the playfield, on it, below every terminal followed
StarRows == { 0, 3, 20 }
StarCols == { 0, 1, 5, 40 }
Stars == [pos : StarRows, col : StarCols, entity : Glyphs]
StarSeqs == UNION { [1..n -> Stars] : n \in 0..MaxStars }
RenderRates == { 8, U8Max }

InitRender ==
    /\ args = [frame_rate |-> Some(8), panic_on_errors |-> FALSE]
    /\ \E size \in RenderSizes, stars \in StarSeqs :
         state = [NewGameState EXCEPT !.size = size, !.falling_stars = stars]
    /\ tick_start = state
    /\ pc = "render"
    /\ target_frame_time = TargetFrameTime(args.frame_rate)
    /\ frame_time = 0
    /\ elapsed = 0
    /\ meassure \in RenderRates
    /\ frame_execution_result = "Ok"
    /\ query = Some(state.size)
    /\ eval_result = "Ok"
    /\ frame = NoFrame
    /\ message = <<>>
    /\ fired_at = -1
    /\ calls = <<>>
    /\ pad_call = None
    /\ pad_result = None

NextRender == RenderFrame

SpecRender == InitRender /\ [][NextRender]_vars

----------------------------------------------------------------------------
(* right_pad and left_pad on their own: called on any string and length *)

\* the characters of the strings: one, two and three bytes long in UTF-8
PadChars == { "a", "U+00E9", "U+2605" }
PadStrings == UNION { [1..n -> PadChars] : n \in 0..MaxPadLen }
PadLengths == 0..(MaxPadLen + 1)

PadCalls ==
    [fn : {"right_pad"}, start_index : {0}, string_content : PadStrings,
     length : PadLengths]
    \cup
    [fn : {"left_pad"}, start_index : PadLengths, string_content : PadStrings,
     length : PadLengths]

InitPad ==
    /\ args = [frame_rate |-> Some(8), panic_on_errors |-> FALSE]
    /\ state = NewGameState
    /\ tick_start = NewGameState
    /\ pc = "pad"
    /\ target_frame_time = [num |-> 0, den |-> 1]
    /\ frame_time = 0
    /\ elapsed = 0
    /\ meassure = 0
    /\ frame_execution_result = "none"
    /\ query = None
    /\ eval_result = "none"
    /\ frame = NoFrame
    /\ message = <<>>
    /\ fired_at = -1
    /\ calls = <<>>
    /\ pad_call \in { Some(c) : c \in PadCalls }
    /\ pad_result = None

\* right_pad(string_content, length)
RightPadCall ==
    /\ pc = "pad"
    /\ Unwrap(pad_call).fn = "right_pad"
    /\ pad_result' = Some(RightPad(Unwrap(pad_call).string_content,
                                   Unwrap(pad_call).length))
    /\ pc' = "padded"
    /\ UNCHANGED <<pad_call, args, state, target_frame_time, frame_time, elapsed,
                   meassure, frame_execution_result, query, eval_result, frame,
                   message, fired_at, calls, tick_start>>

\* left_pad(start_index, string_content, length)
LeftPadCall ==
    /\ pc = "pad"
    /\ Unwrap(pad_call).fn = "left_pad"
    /\ pad_result' = Some([panicked |-> FALSE,
                           value |-> LeftPad(Unwrap(pad_call).start_index,
                                             Unwrap(pad_call).string_content,
                                             Unwrap(pad_call).length)])
    /\ pc' = "padded"
    /\ UNCHANGED <<pad_call, args, state, target_frame_time, frame_time, elapsed,
                   meassure, frame_execution_result, query, eval_result, frame,
                   message, fired_at, calls, tick_start>>

NextPad ==
    \/ RightPadCall
    \/ LeftPadCall

SpecPad == InitPad /\ [][NextPad]_vars

----------------------------------------------------------------------------
(* Properties *)

Abs(x) == IF x < 0 THEN -x ELSE x

\* how many times the current tick has made the call c
Count(c) == Cardinality({ i \in 1..Len(calls) : calls[i] = c })

TooSmall(size) == size.rows < 8 \/ size.cols < 8

\* a tick has fired and start() has not yet left it
InTick == fired_at # -1
\* the current tick has come to its end: it continues the loop or the process
\* has stopped in it
TickOver == InTick /\ pc \in {"continue", "aborted", "hung"}

\* C1: evaluate_state returns TerminalQueryFailed when the query answers
\* nothing, TerminalTooSmall when it answers dimensions with rows < 8 or
\* cols < 8, and otherwise success with the stored dimensions equal to the
\* queried ones ({7,100} and {100,7} are rejected, {8,8} is accepted).
C1_EvaluateStateContract ==
    eval_result # "none" =>
        /\ IsNone(query) => eval_result = TerminalQueryFailed
        /\ ~IsNone(query) /\ TooSmall(Unwrap(query)) => eval_result = TerminalTooSmall
        /\ ~IsNone(query) /\ ~TooSmall(Unwrap(query)) =>
               eval_result = "Ok" /\ state.size = Unwrap(query)
        /\ query \in {Some(Size(7, 100)), Some(Size(100, 7))} =>
               eval_result = TerminalTooSmall
        /\ query = Some(Size(8, 8)) => eval_result = "Ok"

C1_Witness ==
    /\ pc = "match"
    /\ query = Some(Size(100, 7))
    /\ eval_result = TerminalTooSmall

\* C2: a tick that ends in an error leaves every field of GameState, the
\* stored Terminal Dimensions included, as it was before the tick.
C2_FailedTickKeepsState ==
    (InTick /\ frame_execution_result \notin {"none", "Ok"}) => state = tick_start

\* C3: render is invoked only on a tick whose evaluate_state succeeded, with
\* stored rows >= 8 and cols >= 8; a tick whose dimensions are below 8 on
\* either axis draws nothing.
C3_RenderOnlyAfterSuccess ==
    /\ (pc = "render" \/ Count("render") > 0) =>
           /\ eval_result = "Ok"
           /\ frame_execution_result = "Ok"
           /\ state.size.rows >= 8
           /\ state.size.cols >= 8
    /\ TooSmall(state.size) =>
           /\ pc # "render"
           /\ Count("render") = 0
           /\ frame = NoFrame

C3_Witness ==
    /\ Count("render") = 1
    /\ state.size = Size(12, 40)

\* the accumulator a has reached the target frame time
Reached(a) == a * target_frame_time.den >= target_frame_time.num * TicksPerSec

\* C4, the parts on when a tick fires and on its arithmetic: an iteration
\* fires a tick if and only if the accumulator is >= target_frame_time; the
\* measured frame rate is round(1 / accumulator) of the accumulator before the
\* reset; the accumulator is reset to zero; with a target of 0.125 s an
\* accumulator of 0.1 s does not fire and one of 0.13 s fires with rate 8.
TickFiresWhenDue ==
    /\ pc = "loop" =>
           /\ (ENABLED FireTick) <=> Reached(frame_time)
           /\ (ENABLED Accumulate) <=> ~Reached(frame_time)
    /\ InTick =>
           /\ Reached(fired_at)
           /\ 2 * Abs(meassure * fired_at - TicksPerSec) <= fired_at
           /\ frame_time = 0
    /\ target_frame_time = [num |-> 1, den |-> 8] =>
           /\ (pc = "loop" /\ frame_time = 10) => ~ENABLED FireTick
           /\ (pc = "loop" /\ frame_time = 13) => ENABLED FireTick
           /\ fired_at = 13 => meassure = 8

\* C4 as stated: a fired tick executes exactly one evaluate_state call and at
\* most one render call.
C4_TickAsStated ==
    /\ TickFiresWhenDue
    /\ TickOver => Count("evaluate_state") = 1 /\ Count("render") <= 1

\* C4 as amended: a fired tick executes game_loop exactly once, hence one
\* screen clear, one evaluate_state call unless the screen clear failed, in
\* which case none, and at most one render call.
C4_TickAsAmended ==
    /\ TickFiresWhenDue
    /\ InTick => Count("clear") <= 1 /\ Count("evaluate_state") <= 1
                 /\ Count("render") <= 1
    /\ TickOver =>
           /\ Count("clear") = 1
           /\ Count("evaluate_state") =
                  (IF frame_execution_result = ScreenClearFailed THEN 0 ELSE 1)

C4_Witness ==
    /\ TickOver
    /\ target_frame_time = [num |-> 1, den |-> 8]
    /\ fired_at = 13
    /\ meassure = 8
    /\ Count("evaluate_state") = 1

\* C5: after every non-firing iteration the accumulator equals the wall-clock
\* time elapsed since the last tick: no interval is counted twice or dropped.
C5_AccumulatorIsElapsed ==
    pc = "loop" => frame_time = elapsed

\* C6: 1 / accumulator is never evaluated with an accumulator of zero: the
\* accumulator is strictly positive whenever a tick fires, the first tick
\* after startup included, for an absent, a zero and a positive frame rate.
C6_FiresWithPositiveAccumulator ==
    /\ InTick => fired_at > 0
    /\ (pc = "loop" /\ frame_time = 0) => ~ENABLED FireTick

C6_Witness ==
    /\ pc = "game_loop"
    /\ args.frame_rate = Some(0)
    /\ fired_at = 1
    /\ meassure = 100

\* C7: a tick error is dispatched on panic_on_errors: if true the process
\* aborts with the error message and no tick or render follows; if false the
\* error is logged, render is not called in that tick and the loop goes on.
C7_ErrorDispatch ==
    /\ (pc = "match" /\ frame_execution_result # "Ok") =>
           (ENABLED MatchErr) /\ ~ENABLED MatchOk
    /\ (TickOver /\ frame_execution_result # "Ok") =>
           /\ Count("render") = 0
           /\ frame = NoFrame
           /\ pc # "hung"
           /\ pc = "aborted" <=> args.panic_on_errors
           /\ pc = "continue" <=> ~args.panic_on_errors
           /\ message = << (IF args.panic_on_errors THEN "Panic! {}" ELSE "Error! {}"),
                           frame_execution_result >>
    /\ pc = "aborted" => ~ENABLED Next
    /\ pc = "continue" => ENABLED Continue

C7_Witness ==
    /\ pc = "aborted"
    /\ args.panic_on_errors
    /\ message = <<"Panic! {}", ScreenClearFailed>>

\* C8: the target frame time is 1 / rate seconds for a frame rate in 1..255
\* and 1 / 255 seconds for an absent or zero frame rate, hence positive.
C8_TargetFrameTime ==
    pc = "start" =>
        /\ \A r \in 1..255 :
             args.frame_rate = Some(r) => target_frame_time = [num |-> 1, den |-> r]
        /\ args.frame_rate \in {None, Some(0)} =>
               target_frame_time = [num |-> 1, den |-> 255]
        /\ target_frame_time.num > 0
        /\ target_frame_time.den > 0

C8_Witness ==
    /\ pc = "start"
    /\ args.frame_rate = Some(0)
    /\ target_frame_time = [num |-> 1, den |-> 255]

\* the playfield rows of a terminal of size s
PlayfieldRows(s) == (IF s.rows > 10 THEN 2 ELSE 1)..(s.rows - 1)

\* C9: for rows >= 8, cols >= 8 and any collection of FallingStars, render
\* terminates and emits one frame: a blank line, the status line, a '='
\* separator line if and only if rows > 10, and one line per playfield row.
C9_RenderEmitsOneFrame ==
    (pc # "render" /\ frame # NoFrame) =>
        /\ frame.outcome = "returned"
        /\ Len(frame.lines) =
               2 + (IF state.size.rows > 10 THEN 1 ELSE 0)
                 + Cardinality(PlayfieldRows(state.size))
        /\ frame.lines[1] = <<>>
        /\ state.size.rows > 10 => frame.lines[3] = Repeat("=", state.size.rows)

\* the index in frame.lines of the line of playfield row r
LineOfRow(s, r) == (IF s.rows > 10 THEN 3 ELSE 2) + (r - (IF s.rows > 10 THEN 2 ELSE 1)) + 1

\* C10: the line render emits for a playfield row holding a FallingStar with
\* column c >= 1 is the '=' line with the star's glyph at 0-based offset
\* c - 1; {rows: 12, cols: 40} with the star {row: 3, col: 5, '*'} gives on
\* row 3 twelve characters, '*' at offset 4 and '=' elsewhere.
C10_StarGlyphAtColumn ==
    (pc # "render" /\ frame # NoFrame /\ Len(state.falling_stars) = 1) =>
        LET star == state.falling_stars[1]
            rows == state.size.rows
        IN  (star.pos \in PlayfieldRows(state.size) /\ star.col >= 1 /\ star.col <= rows) =>
                /\ Len(frame.lines) >= LineOfRow(state.size, star.pos)
                /\ frame.lines[LineOfRow(state.size, star.pos)] =
                       [i \in 1..rows |-> IF i = star.col THEN star.entity ELSE "="]

\* the startup population step is over: the scheduler loop has been entered
Populated == pc \notin {"args", "start", "populate", "aborted"} \/ InTick

\* C11: after the startup population step the state holds exactly 4
\* FallingStars, each at row 0 with a column in [1, cols) of the startup
\* width, and the 4 columns are pairwise distinct.
C11_SpawnedStarsDistinct ==
    (pc = "loop" /\ ~InTick /\ frame_time = 0 /\ elapsed = 0) =>
        LET stars == state.falling_stars
        IN  /\ Len(stars) = 4
            /\ \A i \in 1..Len(stars) :
                 stars[i].pos = 0 /\ stars[i].col >= 1 /\ stars[i].col < state.size.cols
            /\ \A i, j \in 1..Len(stars) : i # j => stars[i].col # stars[j].col

\* C12: the player position is floor(rows / 2) of the startup rows, and in
\* every state after startup it lies within [0, rows) of the stored dimensions,
\* whatever the query answers on later ticks.
C12_PlayerWithinRows ==
    Populated =>
        /\ state.player.pos >= 0
        /\ state.player.pos < state.size.rows

C12_Witness ==
    /\ InTick
    /\ eval_result = "Ok"
    /\ state.size = Size(8, 8)
    /\ state.player.pos = 8

\* C15, the part a finite run decides: with panic_on_errors false the
\* scheduler loop never terminates and never gets stuck, whether a tick
\* rendered or failed.
C15_LoopNeverStops ==
    (~args.panic_on_errors /\ Populated) => pc \notin {"aborted", "hung"}

\* s and u agree on everything but the stored Terminal Dimensions
SameButSize(s, u) == [s EXCEPT !.size = u.size] = u

\* C18: evaluate_state changes nothing of GameState but the stored Terminal
\* Dimensions: aliens, projectiles, falling stars and the player position are
\* after the call what they were before it, for every answer of the query.
C18_EvaluateStateFrame ==
    /\ (pc \in {"populate", "aborted"} /\ ~InTick /\ eval_result # "none"
          /\ state.falling_stars = <<>>) => SameButSize(state, NewGameState)
    /\ InTick =>
           /\ SameButSize(state, tick_start)
           /\ state.enemies = tick_start.enemies
           /\ state.projectiles = tick_start.projectiles
           /\ state.falling_stars = tick_start.falling_stars
           /\ state.player = tick_start.player

C18_Witness ==
    /\ pc = "match"
    /\ eval_result = "Ok"
    /\ tick_start.size = Size(16, 8)
    /\ state.size = Size(8, 8)
    /\ state.player.pos = 8

\* s is an initial segment of u
IsPrefix(s, u) == Len(s) <= Len(u) /\ s = SubSeq(u, 1, Len(s))

\* C19: within a tick the order is screen clear, evaluate_state, render: after
\* a failed screen clear evaluate_state is not called (no query, the stored
\* dimensions are not refreshed) and render is not called; render is called
\* only after the evaluate_state of the same tick returned success.
C19_TickOrder ==
    InTick =>
        /\ IsPrefix(calls, <<"clear", "evaluate_state", "render">>)
        /\ frame_execution_result = ScreenClearFailed =>
               /\ calls = <<"clear">>
               /\ IsNone(query)
               /\ eval_result = "none"
               /\ state = tick_start
               /\ frame = NoFrame
        /\ (pc = "render" \/ Count("render") > 0) =>
               /\ Count("evaluate_state") = 1
               /\ eval_result = "Ok"

C19_Witness ==
    /\ pc = "continue"
    /\ frame_execution_result = ScreenClearFailed
    /\ calls = <<"clear">>

\* C20: if the first evaluate_state, at startup, fails, the process aborts
\* before a falling star is spawned, before the player position is set and
\* before any tick or render, whatever panic_on_errors is.
C20_StartupFailureAborts ==
    (~InTick /\ eval_result \notin {"none", "Ok"}) =>
        /\ pc = "aborted"
        /\ message = <<StartupPanic, eval_result>>
        /\ state.falling_stars = <<>>
        /\ state.player.pos = 0
        /\ calls = <<>>
        /\ frame = NoFrame
        /\ ~ENABLED Next

C20_Witness ==
    /\ pc = "aborted"
    /\ ~args.panic_on_errors
    /\ eval_result = TerminalTooSmall
    /\ query = Some(Size(100, 7))
    /\ ~InTick

\* render has been called and has ended one way or the other
Rendered == pc # "render" /\ frame # NoFrame

\* the stars of s on row r, as indices in storage order
StarsOnRow(s, r) ==
    { i \in 1..Len(s.falling_stars) : s.falling_stars[i].pos = r }

\* the '=' line of row r with each star of the row put at 0-based offset
\* col - 1 in storage order, a later star replacing an earlier one
OverlaidLine(s, r) ==
    [ i \in 1..s.size.rows |->
        LET at == { k \in StarsOnRow(s, r) : s.falling_stars[k].col = i }
        IN  IF at = {} THEN "="
            ELSE s.falling_stars[CHOOSE k \in at : \A m \in at : m <= k].entity ]

\* C16: when several FallingStars occupy the row being drawn, each is applied
\* at its own column in storage order: of two stars on the same row and
\* column the glyph of the one stored later shows, and stars on the same row
\* at different columns all appear.
C16_LaterStarWins ==
    Rendered =>
        \A r \in PlayfieldRows(state.size) :
            ( /\ Cardinality(StarsOnRow(state, r)) >= 2
              /\ \A k \in StarsOnRow(state, r) :
                    /\ state.falling_stars[k].col >= 1
                    /\ state.falling_stars[k].col <= state.size.rows ) =>
                /\ Len(frame.lines) >= LineOfRow(state.size, r)
                /\ frame.lines[LineOfRow(state.size, r)] = OverlaidLine(state, r)

\* C17: a row that holds a FallingStar whose column is 0 is rendered without
\* underflow of the column conversion: the offset is clamped to 0 and the
\* glyph is placed at offset 0 of the line, with no wrap-around and no abort.
C17_ColumnZeroClamped ==
    (Rendered /\ Len(state.falling_stars) = 1) =>
        LET star == state.falling_stars[1]
            rows == state.size.rows
        IN  (star.pos \in PlayfieldRows(state.size) /\ star.col = 0) =>
                /\ frame.outcome # "panicked"
                /\ Len(frame.lines) >= LineOfRow(state.size, star.pos)
                /\ frame.lines[LineOfRow(state.size, star.pos)] =
                       [i \in 1..rows |-> IF i = 1 THEN star.entity ELSE "="]

\* the call of fn has returned
Padded(fn) == pc = "padded" /\ Unwrap(pad_call).fn = fn

\* C13: right_pad(s, n) returns a string of exactly n characters, counted as
\* characters: s if it has n characters, its first n characters if it is
\* longer, s followed by spaces if it is shorter; padding the result again
\* to n changes nothing.
C13_RightPadExactLength ==
    Padded("right_pad") =>
        LET s == Unwrap(pad_call).string_content
            n == Unwrap(pad_call).length
            r == Unwrap(pad_result)
        IN  /\ ~r.panicked
            /\ Len(r.value) = n
            /\ r.value = [i \in 1..n |-> IF i <= Len(s) THEN s[i] ELSE " "]
            /\ RightPad(r.value, n) = r

\* C14: left_pad(k, s, n) returns n spaces when k >= n, and otherwise a
\* string that begins with exactly k spaces followed by the whole of s.
C14_LeftPadContract ==
    Padded("left_pad") =>
        LET k == Unwrap(pad_call).start_index
            s == Unwrap(pad_call).string_content
            n == Unwrap(pad_call).length
            r == Unwrap(pad_result).value
        IN  /\ k >= n => r = [i \in 1..n |-> " "]
            /\ k < n =>
                   /\ Len(r) = k + Len(s)
                   /\ \A i \in 1..k : r[i] = " "
                   /\ \A i \in 1..Len(s) : r[k + i] = s[i]

C14_Witness ==
    /\ Padded("left_pad")
    /\ Unwrap(pad_call).start_index = 2
    /\ Unwrap(pad_call).string_content = <<"U+2605", "a">>
    /\ Unwrap(pad_call).length = 2
    /\ Unwrap(pad_result).value = <<" ", " ">>

====
